---- MODULE Spec2Model ----
(***************************************************************************)
(* LimitOrderManager (lib/limit-orders.js): the conditional order engine.  *)
(*                                                                         *)
(* The manager is a single-threaded JavaScript object.  Every synchronous  *)
(* method is one atomic action.  checkOrders is async: it runs atomically  *)
(* from its entry to the first `await executeFn(...)`, and again from the  *)
(* settlement of that promise to the next await or to its return.  While a *)
(* callback is in flight any other method, and any other checkOrders call, *)
(* may run.                                                                *)
(*                                                                         *)
(* Decimal values are modelled by the integers they denote; null, and the  *)
(* values JavaScript treats as falsy in `x ? new Decimal(x) : null`, are   *)
(* NULL.  Dates are values of the clock `now`.                             *)
(***************************************************************************)
EXTENDS Integers, Sequences, FiniteSets, TLC

\* ---------------------------------------------------------------- bounds
MaxOrders == 1      \* orders ever created
MaxPrice  == 2      \* prices and limit prices range over 1..MaxPrice
MaxTime   == 2      \* the clock ranges over 1..MaxTime
MaxTicks  == 2      \* checkOrders calls in flight at once
MaxPairs  == 1      \* OCO pairs ever created
MaxStops  == 1      \* trailing stops ever created
MaxBook   == 2      \* orders ever created in a book of several orders
MaxFresh  == 2      \* orders created on top of a history log near its cap

\* null, and an absent asset filter
NULL == 0
NoAsset == "null"
\* undefined: a property the caller's object does not have
Undefined == -1

Users  == {"alice", "bob"}
Assets == {"ETH", "USDC"}
Prices == 1..MaxPrice
Times  == 1..MaxTime
\* expiry dates the clock can pass
Expiries == {NULL} \cup 1..(MaxTime - 1)


VARIABLES
  orders,        \* this.orders: userId -> keys of the user's Map, in insertion order
  order,         \* the order objects, by numeric id (order_<id>)
  orderHistory,  \* this.orderHistory: userId -> sequence of archived snapshots
  nextOrderId,   \* this.nextOrderId
  ticks,         \* the checkOrders calls suspended at `await executeFn(order, price)`
  now,           \* the clock read by `new Date()`
  last           \* observation of the step just taken: the call, its result,
                 \* and what the loop of checkOrders did in it

vars == <<orders, order, orderHistory, nextOrderId, ticks, now, last>>

Terminal == {"filled", "cancelled", "expired", "failed"}

\* ------------------------------------------------------------ the store
\* The three fields every method reads and writes, passed as one record.
Store == [orders |-> orders, order |-> order, orderHistory |-> orderHistory]

hasOrders(s, userId) == userId \in DOMAIN s.orders

\* userOrders.get(orderId): the id when it is a key of the user's Map
hasKey(s, userId, orderId) ==
  /\ hasOrders(s, userId)
  /\ \E i \in 1..Len(s.orders[userId]) : s.orders[userId][i] = orderId

\* userOrders.delete(orderId)
deleteKey(s, userId, orderId) ==
  IF hasOrders(s, userId)
  THEN [s EXCEPT !.orders[userId] = SelectSeq(@, LAMBDA k : k # orderId)]
  ELSE s

HistoryCap == 1000

\* recordHistory that keeps every entry
recordHistoryUncapped(s, userId, orderId) ==
  LET old == IF userId \in DOMAIN s.orderHistory
             THEN s.orderHistory[userId] ELSE <<>>
  IN [s EXCEPT !.orderHistory =
        [v \in DOMAIN s.orderHistory \cup {userId} |->
           IF v = userId THEN Append(old, s.order[orderId])
           ELSE s.orderHistory[v]]]

\* recordHistory(userId, order): append a snapshot, keep the last HistoryCap
recordHistory(s, userId, orderId) ==
  LET old  == IF userId \in DOMAIN s.orderHistory
              THEN s.orderHistory[userId] ELSE <<>>
      new  == Append(old, s.order[orderId])
      kept == IF Len(new) > HistoryCap
              THEN SubSeq(new, Len(new) - HistoryCap + 1, Len(new))
              ELSE new
  IN [s EXCEPT !.orderHistory =
        [v \in DOMAIN s.orderHistory \cup {userId} |->
           IF v = userId THEN kept ELSE s.orderHistory[v]]]

\* ---------------------------------------------------------- observation
NoCall ==
  [op |-> "init", ok |-> FALSE, count |-> 0, price |-> NULL,
   evaluated |-> {}, expired |-> {}, invoked |-> NULL, settled |-> NULL,
   returned |-> FALSE, executed |-> <<>>]

\* ---------------------------------------------------------- createOrder
\* createOrder(userId, config): the new order object
newOrder(orderId, userId, config, t) ==
  [id |-> orderId,
   userId |-> userId,
   type |-> config.type,
   asset |-> config.asset,
   amount |-> config.amount,
   limitPrice |-> config.limitPrice,
   currentPrice |-> config.currentPrice,
   stopLoss |-> config.stopLoss,
   takeProfit |-> config.takeProfit,
   expiresAt |-> config.expiresAt,
   status |-> "pending",
   createdAt |-> t,
   filledAt |-> NULL,
   filledPrice |-> NULL,
   filledAmount |-> 0,
   \* properties the object does not have yet (undefined)
   linkedOrderId |-> NULL,
   isTrailing |-> FALSE,
   trailAmount |-> NULL,
   trailPercent |-> NULL,
   highestPrice |-> NULL,
   failReason |-> "",
   cancelledAt |-> NULL,
   updatedAt |-> NULL]

\* createOrder on the store: id nextOrderId, appended to the user's Map
createOrder(s, orderId, userId, config, t) ==
  [s EXCEPT
     !.order = [k \in DOMAIN s.order \cup {orderId} |->
                  IF k = orderId THEN newOrder(orderId, userId, config, t)
                  ELSE s.order[k]],
     !.orders = [v \in DOMAIN s.orders \cup {userId} |->
                  IF v = userId
                  THEN Append(IF hasOrders(s, v) THEN s.orders[v] ELSE <<>>, orderId)
                  ELSE s.orders[v]]]

Commit(s) ==
  /\ orders' = s.orders
  /\ order' = s.order
  /\ orderHistory' = s.orderHistory

\* A plain limit order: no stopLoss, takeProfit, currentPrice
PlainConfig(type, asset, limitPrice, expiresAt) ==
  [type |-> type, asset |-> asset, amount |-> 1, limitPrice |-> limitPrice,
   currentPrice |-> NULL, stopLoss |-> NULL, takeProfit |-> NULL,
   expiresAt |-> expiresAt]

PlainConfigs ==
  {PlainConfig(type, asset, limitPrice, expiresAt) :
     type \in {"buy", "sell"}, asset \in Assets, limitPrice \in Prices,
     expiresAt \in Expiries}

\* orders with a stop loss, a take profit and the optional currentPrice
StopConfigs ==
  {[type |-> type, asset |-> asset, amount |-> 1, limitPrice |-> limitPrice,
    currentPrice |-> currentPrice, stopLoss |-> stopLoss,
    takeProfit |-> takeProfit, expiresAt |-> NULL] :
     type \in {"buy", "sell"}, asset \in Assets, limitPrice \in Prices,
     currentPrice \in {NULL, 1}, stopLoss \in {NULL} \cup Prices,
     takeProfit \in {NULL} \cup Prices}

\* configurations a caller should not pass: no amount, no or no positive
\* limit price, a side that is neither buy nor sell
InvalidConfigs ==
  {[PlainConfig("buy", asset, 1, NULL) EXCEPT !.amount = 0] : asset \in Assets}
    \cup {[PlainConfig("sell", asset, 1, NULL) EXCEPT !.limitPrice = bad] :
            asset \in Assets, bad \in {0, Undefined}}
    \cup {PlainConfig("hold", asset, 1, NULL) : asset \in Assets}

OrderConfigs == StopConfigs \cup InvalidConfigs

\* lines 214-215: new Decimal(undefined) throws
throwsDecimalError(config) ==
  config.amount = Undefined \/ config.limitPrice = Undefined

\* createOrder(userId, config): the id is taken (line 207) before the order
\* object is built, so a throwing call uses up an id and stores nothing
createOrderCallSameId(userId, config, bound) ==
  /\ nextOrderId <= bound
  /\ IF throwsDecimalError(config)
     THEN UNCHANGED <<orders, order, orderHistory>>
     ELSE Commit(createOrder(Store, nextOrderId, userId, config, now))
  /\ last' = [NoCall EXCEPT !.op = "createOrder",
                            !.ok = ~throwsDecimalError(config)]
  /\ UNCHANGED <<nextOrderId, ticks, now>>

createOrderCall(userId, config, bound) ==
  /\ nextOrderId <= bound
  /\ IF throwsDecimalError(config)
     THEN UNCHANGED <<orders, order, orderHistory>>
     ELSE Commit(createOrder(Store, nextOrderId, userId, config, now))
  /\ last' = [NoCall EXCEPT !.op = "createOrder",
                            !.ok = ~throwsDecimalError(config)]
  /\ nextOrderId' = nextOrderId + 1
  /\ UNCHANGED <<ticks, now>>

CreateOrder(userId, config) == createOrderCall(userId, config, MaxOrders)

\* the orders of a book of several orders: buy orders at the highest price
BookConfigs == {PlainConfig("buy", asset, MaxPrice, NULL) : asset \in Assets}

\* createOrder by a user whose history log is near its cap
LateOrder(userId, config) ==
  createOrderCall(userId, config, HistoryCap + MaxFresh)

\* createOrder while the book has room
BookOrder(userId, config) == createOrderCall(userId, config, MaxBook)

\* ------------------------------------------------------------ createOCO
\* lines 465-481: a buy leg and a stop-sell leg, linked to each other
\* lines 465-470 and 472-478: the configurations of the two legs
ocoBuyConfig(asset, amount, limitPrice) ==
  [type |-> "buy", asset |-> asset, amount |-> amount,
   limitPrice |-> limitPrice, currentPrice |-> NULL,
   stopLoss |-> NULL, takeProfit |-> NULL, expiresAt |-> NULL]

ocoStopConfig(asset, amount, stopPrice) ==
  [type |-> "sell", asset |-> asset, amount |-> amount,
   limitPrice |-> stopPrice, currentPrice |-> NULL,
   stopLoss |-> IF stopPrice = Undefined THEN NULL ELSE stopPrice,
   takeProfit |-> NULL, expiresAt |-> NULL]

\* lines 465-483 when neither createOrder throws
createOCO(s, orderId, userId, asset, amount, limitPrice, stopPrice, t) ==
  LET both == createOrder(createOrder(s, orderId, userId,
                                      ocoBuyConfig(asset, amount, limitPrice), t),
                          orderId + 1, userId,
                          ocoStopConfig(asset, amount, stopPrice), t)
  IN [both EXCEPT !.order[orderId].linkedOrderId = orderId + 1,
                  !.order[orderId + 1].linkedOrderId = orderId]

\* createOCO(userId, asset, amount, limitPrice, stopPrice): when the first
\* createOrder throws nothing is stored and one id is used up; when the
\* second throws the buy leg is already stored, unlinked, and two ids are
\* used up
CreateOCO(userId, asset, amount, limitPrice, stopPrice) ==
  /\ nextOrderId + 1 <= 2 * MaxPairs
  /\ IF throwsDecimalError(ocoBuyConfig(asset, amount, limitPrice))
     THEN /\ UNCHANGED <<orders, order, orderHistory>>
          /\ nextOrderId' = nextOrderId + 1
          /\ last' = [NoCall EXCEPT !.op = "createOCO"]
     ELSE IF throwsDecimalError(ocoStopConfig(asset, amount, stopPrice))
     THEN /\ Commit(createOrder(Store, nextOrderId, userId,
                                ocoBuyConfig(asset, amount, limitPrice), now))
          /\ nextOrderId' = nextOrderId + 2
          /\ last' = [NoCall EXCEPT !.op = "createOCO"]
     ELSE /\ Commit(createOCO(Store, nextOrderId, userId, asset, amount,
                              limitPrice, stopPrice, now))
          /\ nextOrderId' = nextOrderId + 2
          /\ last' = [NoCall EXCEPT !.op = "createOCO", !.ok = TRUE]
  /\ UNCHANGED <<ticks, now>>

\* --------------------------------------------------- createTrailingStop
\* lines 490-502: a sell order with limit price 0 and the trailing fields
createTrailingStop(s, orderId, userId, asset, amount, trailAmount, trailPercent, t) ==
  LET config == [type |-> "sell", asset |-> asset, amount |-> amount,
                 limitPrice |-> 0, currentPrice |-> NULL, stopLoss |-> NULL,
                 takeProfit |-> NULL, expiresAt |-> NULL]
  IN [createOrder(s, orderId, userId, config, t) EXCEPT
        !.order[orderId].isTrailing = TRUE,
        !.order[orderId].trailAmount = trailAmount,
        !.order[orderId].trailPercent = trailPercent,
        !.order[orderId].highestPrice = NULL]

CreateTrailingStop(userId, asset, amount, trailAmount, trailPercent) ==
  /\ nextOrderId <= MaxStops
  /\ Commit(createTrailingStop(Store, nextOrderId, userId, asset, amount,
                               trailAmount, trailPercent, now))
  /\ last' = [NoCall EXCEPT !.op = "createTrailingStop"]
  /\ nextOrderId' = nextOrderId + 1
  /\ UNCHANGED <<ticks, now>>

\* the trail distances a caller passes: an amount, a percentage, or both
TrailAmounts  == {NULL, 1}
TrailPercents == {NULL, 50}

\* ---------------------------------------------------------- checkOrders
\* triggerReason with the buy comparison strict: a buy at exactly the limit
\* price does not fire
triggerReasonStrictBuy(o, price) ==
  LET limit == IF o.type = "buy" /\ price < o.limitPrice
               THEN "Limit price reached (buy)"
               ELSE IF o.type = "sell" /\ price >= o.limitPrice
               THEN "Limit price reached (sell)"
               ELSE ""
      stop  == IF /\ o.stopLoss # NULL /\ o.currentPrice # NULL
                  /\ o.type = "sell" /\ price <= o.stopLoss
               THEN "Stop loss triggered" ELSE limit
  IN IF /\ o.takeProfit # NULL /\ o.currentPrice # NULL
        /\ o.type = "sell" /\ price >= o.takeProfit
     THEN "Take profit triggered" ELSE stop

\* lines 259-282: the reason the order fires at `price`, "" when it does not
triggerReason(o, price) ==
  LET limit == IF o.type = "buy" /\ price <= o.limitPrice
               THEN "Limit price reached (buy)"
               ELSE IF o.type = "sell" /\ price >= o.limitPrice
               THEN "Limit price reached (sell)"
               ELSE ""
      stop  == IF /\ o.stopLoss # NULL /\ o.currentPrice # NULL
                  /\ o.type = "sell" /\ price <= o.stopLoss
               THEN "Stop loss triggered" ELSE limit
  IN IF /\ o.takeProfit # NULL /\ o.currentPrice # NULL
        /\ o.type = "sell" /\ price >= o.takeProfit
     THEN "Take profit triggered" ELSE stop

\* isExpired with the comparison turned around
isExpiredReversed(o, t) == o.expiresAt # NULL /\ t < o.expiresAt

\* line 250: order.expiresAt && new Date() > order.expiresAt
isExpired(o, t) == o.expiresAt # NULL /\ t > o.expiresAt

\* the loop without the asset test of line 247
RECURSIVE loopOrdersAnyAsset(_, _, _, _, _, _, _)
loopOrdersAnyAsset(s, userId, asset, price, pos, t, seen) ==
  LET rest == SelectSeq(s.orders[userId], LAMBDA k : k > pos)
  IN IF rest = <<>>
     THEN [s |-> s, await |-> NULL, reason |-> "", seen |-> seen]
     ELSE
       LET orderId == Head(rest)
           o == s.order[orderId]
       IN IF o.status # "pending"
          THEN loopOrdersAnyAsset(s, userId, asset, price, orderId, t, seen)
          ELSE IF isExpired(o, t)
          THEN loopOrdersAnyAsset(
                 recordHistory([s EXCEPT !.order[orderId].status = "expired"],
                               userId, orderId),
                 userId, asset, price, orderId, t,
                 [seen EXCEPT !.expired = @ \cup {orderId}])
          ELSE IF triggerReason(o, price) # ""
          THEN [s |-> s, await |-> orderId, reason |-> triggerReason(o, price),
                seen |-> [seen EXCEPT !.evaluated = @ \cup {orderId}]]
          ELSE loopOrdersAnyAsset(s, userId, asset, price, orderId, t,
                                  [seen EXCEPT !.evaluated = @ \cup {orderId}])

\* The for-of loop over the user's Map, resumed after key `pos`, run up to the
\* next `await executeFn` (await # NULL) or to the end of the Map.  A Map
\* iterator visits the keys present when it reaches them, in insertion order;
\* keys are inserted in increasing id order.
RECURSIVE loopOrders(_, _, _, _, _, _, _)
loopOrders(s, userId, asset, price, pos, t, seen) ==
  LET rest == SelectSeq(s.orders[userId], LAMBDA k : k > pos)
  IN IF rest = <<>>
     THEN [s |-> s, await |-> NULL, reason |-> "", seen |-> seen]
     ELSE
       LET orderId == Head(rest)
           o == s.order[orderId]
       IN IF o.asset # asset \/ o.status # "pending"
          THEN loopOrders(s, userId, asset, price, orderId, t, seen)
          ELSE IF isExpired(o, t)
          THEN loopOrders(
                 recordHistory([s EXCEPT !.order[orderId].status = "expired"],
                               userId, orderId),
                 userId, asset, price, orderId, t,
                 [seen EXCEPT !.expired = @ \cup {orderId}])
          ELSE IF triggerReason(o, price) # ""
          THEN [s |-> s, await |-> orderId, reason |-> triggerReason(o, price),
                seen |-> [seen EXCEPT !.evaluated = @ \cup {orderId}]]
          ELSE loopOrders(s, userId, asset, price, orderId, t,
                          [seen EXCEPT !.evaluated = @ \cup {orderId}])

NoneSeen == [evaluated |-> {}, expired |-> {}]

\* What a run of the loop leaves behind: the store, the suspended call when
\* the loop stopped at an await, and the observation of the step.
AfterLoop(r, call, rest, settled) ==
  /\ Commit(r.s)
  /\ ticks' = IF r.await = NULL THEN rest
              ELSE Append(rest, [call EXCEPT !.cur = r.await, !.reason = r.reason,
                                             !.amount = r.s.order[r.await].amount])
  /\ last' = [NoCall EXCEPT
                !.op = "checkOrders", !.price = call.price,
                !.evaluated = r.seen.evaluated, !.expired = r.seen.expired,
                !.invoked = r.await, !.settled = settled,
                !.returned = (r.await = NULL),
                !.executed = IF r.await = NULL THEN call.executed ELSE <<>>]

\* checkOrders(userId, asset, currentPrice, executeFn), from its entry
CheckOrders(userId, asset, price) ==
  /\ Len(ticks) < MaxTicks
  /\   LET call == [userId |-> userId, asset |-> asset, price |-> price,
                    cur |-> NULL, reason |-> "", amount |-> NULL,
                    executed |-> <<>>]
       IN IF ~hasOrders(Store, userId)
          THEN /\ last' = [NoCall EXCEPT !.op = "checkOrders", !.price = price,
                                         !.returned = TRUE]
               /\ UNCHANGED <<orders, order, orderHistory, ticks>>
          ELSE AfterLoop(loopOrders(Store, userId, asset, price, 0, now, NoneSeen),
                         call, ticks, NULL)
  /\ UNCHANGED <<nextOrderId, now>>

RemoveAt(seq, i) == SubSeq(seq, 1, i - 1) \o SubSeq(seq, i + 1, Len(seq))

\* lines 288-301: the callback returned
fillOrder(s, call, t) ==
  LET o == s.order[call.cur]
      filled == [s EXCEPT !.order[call.cur] =
                   [o EXCEPT !.status = "filled", !.filledAt = t,
                             !.filledPrice = call.price,
                             !.filledAmount = o.amount]]
  IN deleteKey(recordHistory(filled, call.userId, call.cur),
               call.userId, call.cur)

\* failOrder that records the error and leaves the order pending for a retry
failOrderRetry(s, call, message) ==
  [s EXCEPT !.order[call.cur].failReason = message]

\* lines 302-306: the callback threw
failOrder(s, call, message) ==
  [s EXCEPT !.order[call.cur].status = "failed",
            !.order[call.cur].failReason = message]

ErrorMessage == "execution failed"

\* executeFn's promise fulfils: the order is filled and the loop goes on
ExecReturn(i) ==
  /\ i \in 1..Len(ticks)
  /\   LET call == ticks[i]
           done == [call EXCEPT !.executed =
                      Append(@, [orderId |-> call.cur, reason |-> call.reason])]
       IN AfterLoop(loopOrders(fillOrder(Store, call, now), call.userId,
                               call.asset, call.price, call.cur, now, NoneSeen),
                    done, RemoveAt(ticks, i), call.cur)
  /\ UNCHANGED <<nextOrderId, now>>

\* executeFn throws or its promise rejects: the order fails and the loop goes on
ExecThrow(i) ==
  /\ i \in 1..Len(ticks)
  /\   LET call == ticks[i]
       IN AfterLoop(loopOrders(failOrder(Store, call, ErrorMessage), call.userId,
                               call.asset, call.price, call.cur, now, NoneSeen),
                    call, RemoveAt(ticks, i), call.cur)
  /\ UNCHANGED <<nextOrderId, now>>

\* ---------------------------------------------------------- cancelOrder
\* cancellable without the status test: any order still in the Map
cancellableAnyStatus(s, userId, orderId) == hasKey(s, userId, orderId)

\* lines 341-342: the order the call may cancel
cancellable(s, userId, orderId) ==
  /\ hasKey(s, userId, orderId)
  /\ s.order[orderId].status = "pending"

\* lines 344-348
cancelOne(s, userId, orderId, t) ==
  deleteKey(recordHistory([s EXCEPT !.order[orderId].status = "cancelled",
                                    !.order[orderId].cancelledAt = t],
                          userId, orderId),
            userId, orderId)

\* the ids a caller may name: those handed out, and one that was not
OrderIds == 1..nextOrderId

CancelOrder(userId, orderId) ==
  /\   LET ok == cancellable(Store, userId, orderId)
       IN /\ Commit(IF ok THEN cancelOne(Store, userId, orderId, now) ELSE Store)
          /\ last' = [NoCall EXCEPT !.op = "cancelOrder", !.ok = ok]
  /\ UNCHANGED <<nextOrderId, ticks, now>>

\* cancelAllOrders: the loop over the user's Map
RECURSIVE cancelLoop(_, _, _, _, _, _)
cancelLoop(s, userId, asset, pos, t, cancelled) ==
  LET rest == SelectSeq(s.orders[userId], LAMBDA k : k > pos)
  IN IF rest = <<>> THEN [s |-> s, cancelled |-> cancelled]
     ELSE LET orderId == Head(rest)
              o == s.order[orderId]
          IN IF o.status # "pending" \/ (asset # NoAsset /\ o.asset # asset)
             THEN cancelLoop(s, userId, asset, orderId, t, cancelled)
             ELSE cancelLoop(cancelOne(s, userId, orderId, t), userId, asset,
                             orderId, t, cancelled + 1)

CancelAllOrdersAnyAsset(userId, asset) ==
  /\   LET r == IF hasOrders(Store, userId)
                THEN cancelLoop(Store, userId, NoAsset, 0, now, 0)
                ELSE [s |-> Store, cancelled |-> 0]
       IN /\ Commit(r.s)
          /\ last' = [NoCall EXCEPT !.op = "cancelAllOrders", !.count = r.cancelled]
  /\ UNCHANGED <<nextOrderId, ticks, now>>

\* cancelAllOrders(userId, asset = null)
CancelAllOrders(userId, asset) ==
  /\   LET r == IF hasOrders(Store, userId)
                THEN cancelLoop(Store, userId, asset, 0, now, 0)
                ELSE [s |-> Store, cancelled |-> 0]
       IN /\ Commit(r.s)
          /\ last' = [NoCall EXCEPT !.op = "cancelAllOrders", !.count = r.cancelled]
  /\ UNCHANGED <<nextOrderId, ticks, now>>

\* ------------------------------------------------------ getActiveOrders
\* Array.prototype.sort with the comparator (a, b) => a.createdAt - b.createdAt
RECURSIVE sortOldestFirst(_, _)
sortOldestFirst(s, ids) ==
  IF ids = <<>> THEN <<>>
  ELSE LET done == sortOldestFirst(s, SubSeq(ids, 1, Len(ids) - 1))
           x    == ids[Len(ids)]
       IN SelectSeq(done, LAMBDA k : s.order[k].createdAt <= s.order[x].createdAt)
            \o <<x>>
            \o SelectSeq(done, LAMBDA k : s.order[k].createdAt > s.order[x].createdAt)

\* line 323: Array.prototype.sort (stable) with the comparator
\* (a, b) => b.createdAt - a.createdAt; each element is inserted behind the
\* elements that are not older than it
RECURSIVE sortByCreatedAt(_, _)
sortByCreatedAt(s, ids) ==
  IF ids = <<>> THEN <<>>
  ELSE LET done == sortByCreatedAt(s, SubSeq(ids, 1, Len(ids) - 1))
           x    == ids[Len(ids)]
       IN SelectSeq(done, LAMBDA k : s.order[k].createdAt >= s.order[x].createdAt)
            \o <<x>>
            \o SelectSeq(done, LAMBDA k : s.order[k].createdAt < s.order[x].createdAt)

\* lines 316-324: the ids of the orders getActiveOrders returns, in order
getActiveOrders(s, userId, asset) ==
  IF ~hasOrders(s, userId) THEN <<>>
  ELSE LET pending == SelectSeq(s.orders[userId],
                                LAMBDA k : s.order[k].status = "pending")
           onAsset == SelectSeq(pending,
                                LAMBDA k : asset = NoAsset \/ s.order[k].asset = asset)
       IN sortByCreatedAt(s, onAsset)

\* -------------------------------------------------------- getStatistics
\* history.filter(o => o.status === status).length
countStatus(history, status) ==
  Cardinality({i \in 1..Len(history) : history[i].status = status})

\* lines 454-456: the fill rate in hundredths of a percent, as toFixed(2)
\* rounds it, or "N/A" for an empty history
fillRate(filled, total) ==
  IF total > 0
  THEN [text |-> "%", hundredths |-> (2 * 10000 * filled + total) \div (2 * total)]
  ELSE [text |-> "N/A", hundredths |-> 0]

\* lines 438-458
getStatistics(s, userId) ==
  LET history == IF userId \in DOMAIN s.orderHistory
                 THEN s.orderHistory[userId] ELSE <<>>
  IN [active    |-> Len(getActiveOrders(s, userId, NoAsset)),
      filled    |-> countStatus(history, "filled"),
      cancelled |-> countStatus(history, "cancelled"),
      expired   |-> countStatus(history, "expired"),
      failed    |-> countStatus(history, "failed"),
      total     |-> Len(history),
      fillRate  |-> fillRate(countStatus(history, "filled"), Len(history))]

\* ---------------------------------------------------------- updateOrder
getOrderAnyOwner(s, userId, orderId) ==
  IF \E v \in DOMAIN s.orders : hasKey(s, v, orderId) THEN orderId ELSE NULL

\* getOrder(userId, orderId)
getOrder(s, userId, orderId) ==
  IF hasKey(s, userId, orderId) THEN orderId ELSE NULL

\* lines 384-400: the fields of `updates` applied to the order
applyUpdates(o, updates, t) ==
  [o EXCEPT
     !.limitPrice = IF updates.limitPrice \notin {Undefined, NULL}
                    THEN updates.limitPrice ELSE @,
     !.amount = IF updates.amount \notin {Undefined, NULL}
                THEN updates.amount ELSE @,
     !.stopLoss = IF updates.stopLoss # Undefined THEN updates.stopLoss ELSE @,
     !.takeProfit = IF updates.takeProfit # Undefined THEN updates.takeProfit ELSE @,
     !.expiresAt = IF updates.expiresAt # Undefined THEN updates.expiresAt ELSE @,
     !.updatedAt = t]

NoUpdates ==
  [limitPrice |-> Undefined, amount |-> Undefined, stopLoss |-> Undefined,
   takeProfit |-> Undefined, expiresAt |-> Undefined]

updateOrderAnyStatus(s, userId, orderId, updates, t) ==
  IF getOrder(s, userId, orderId) = NULL
  THEN [s |-> s, success |-> FALSE]
  ELSE [s |-> [s EXCEPT !.order[orderId] = applyUpdates(@, updates, t)],
        success |-> TRUE]

\* lines 379-382 and 401
updateOrder(s, userId, orderId, updates, t) ==
  IF getOrder(s, userId, orderId) = NULL \/ s.order[orderId].status # "pending"
  THEN [s |-> s, success |-> FALSE]
  ELSE [s |-> [s EXCEPT !.order[orderId] = applyUpdates(@, updates, t)],
        success |-> TRUE]

\* updates that move the limit price or the expiry of an order
PlainUpdates ==
  {[NoUpdates EXCEPT !.limitPrice = p] : p \in Prices}
    \cup {[NoUpdates EXCEPT !.expiresAt = e] : e \in Expiries}

\* updates of the amount, the stop loss and the take profit (null clears)
StopUpdates ==
  {[NoUpdates EXCEPT !.amount = 2]}
    \cup {[NoUpdates EXCEPT !.stopLoss = p] : p \in {NULL, 1}}
    \cup {[NoUpdates EXCEPT !.takeProfit = p] : p \in {NULL, MaxPrice}}

AllUpdates == PlainUpdates \cup StopUpdates

\* the orders the update scenarios start from
UpdateConfigs == {PlainConfig("sell", "ETH", MaxPrice, e) : e \in Expiries}

UpdateOrder(userId, orderId, updates) ==
  /\   LET r == updateOrder(Store, userId, orderId, updates, now)
       IN /\ Commit(r.s)
          /\ last' = [NoCall EXCEPT !.op = "updateOrder", !.ok = r.success]
  /\ UNCHANGED <<nextOrderId, ticks, now>>

\* ------------------------------------------------------------------ Init
Init ==
  /\ orders = [u \in {} |-> <<>>]
  /\ order = [k \in {} |-> 0]
  /\ orderHistory = [u \in {} |-> <<>>]
  /\ nextOrderId = 1
  /\ ticks = <<>>
  /\ now = 1
  /\ last = NoCall

\* The state after alice created n orders at time 1 and cancelled each of
\* them: n archived orders, an empty Map, the next id n + 1
InitHistory ==
  \E n \in (HistoryCap - 1)..HistoryCap :
    LET past == [id \in 1..n |->
                   [newOrder(id, "alice", PlainConfig("buy", "ETH", MaxPrice, NULL), 1)
                      EXCEPT !.status = "cancelled", !.cancelledAt = 1]]
    IN /\ orders = [u \in {"alice"} |-> <<>>]
       /\ order = past
       /\ orderHistory = [u \in {"alice"} |-> past]
       /\ nextOrderId = n + 1
       /\ ticks = <<>>
       /\ now = 1
       /\ last = NoCall

\* time passes between two method calls
AdvanceClock ==
  /\ now < MaxTime
  /\ now' = now + 1
  /\ last' = [NoCall EXCEPT !.op = "clock"]
  /\ UNCHANGED <<orders, order, orderHistory, nextOrderId, ticks>>

TickIds == 1..MaxTicks

\* The engine with plain limit orders
Next ==
  \/ \E userId \in Users, config \in PlainConfigs : CreateOrder(userId, config)
  \/ \E userId \in Users, asset \in Assets, price \in Prices :
       CheckOrders(userId, asset, price)
  \/ \E i \in TickIds : ExecReturn(i)
  \/ \E i \in TickIds : ExecThrow(i)
  \/ \E userId \in Users, orderId \in OrderIds : CancelOrder(userId, orderId)
  \/ \E userId \in Users, asset \in Assets \cup {NoAsset} :
       CancelAllOrders(userId, asset)
  \/ \E userId \in Users, orderId \in OrderIds, updates \in PlainUpdates :
       UpdateOrder(userId, orderId, updates)
  \/ AdvanceClock

Spec == Init /\ [][Next]_vars

\* The engine with one-cancels-other pairs
\* the buy limit of a pair may lie above every tick and above the stop price
OcoLimits == 1..(MaxPrice + 1)

NextOCO ==
  \/ \E userId \in Users, asset \in Assets, limitPrice \in OcoLimits,
        stopPrice \in Prices : CreateOCO(userId, asset, 1, limitPrice, stopPrice)
  \/ \E userId \in Users, asset \in Assets, price \in Prices :
       CheckOrders(userId, asset, price)
  \/ \E i \in TickIds : ExecReturn(i)
  \/ \E i \in TickIds : ExecThrow(i)
  \/ \E userId \in Users, orderId \in OrderIds : CancelOrder(userId, orderId)

SpecOCO == Init /\ [][NextOCO]_vars

\* The engine with trailing stops
NextTrailing ==
  \/ \E userId \in Users, asset \in Assets, trailAmount \in TrailAmounts,
        trailPercent \in TrailPercents :
       CreateTrailingStop(userId, asset, 1, trailAmount, trailPercent)
  \/ \E userId \in Users, asset \in Assets, price \in Prices :
       CheckOrders(userId, asset, price)
  \/ \E i \in TickIds : ExecReturn(i)
  \/ \E i \in TickIds : ExecThrow(i)
  \/ \E userId \in Users, orderId \in OrderIds : CancelOrder(userId, orderId)
  \/ AdvanceClock

SpecTrailing == Init /\ [][NextTrailing]_vars

\* The engine with stop-loss and take-profit orders and with configurations
\* createOrder is not meant to accept
NextConfigs ==
  \/ \E userId \in Users, config \in OrderConfigs : CreateOrder(userId, config)
  \/ \E userId \in Users, asset \in Assets, price \in Prices :
       CheckOrders(userId, asset, price)
  \/ \E i \in TickIds : ExecReturn(i)
  \/ \E i \in TickIds : ExecThrow(i)
  \/ \E userId \in Users, orderId \in OrderIds : CancelOrder(userId, orderId)

SpecConfigs == Init /\ [][NextConfigs]_vars

\* The engine with updates of every updatable field; the caller awaits each
\* tick before the next one
NextUpdates ==
  \/ \E userId \in Users, config \in UpdateConfigs : CreateOrder(userId, config)
  \/ \E userId \in Users, orderId \in OrderIds, updates \in AllUpdates :
       UpdateOrder(userId, orderId, updates)
  \/ \E userId \in Users : ticks = <<>> /\ CheckOrders(userId, "ETH", MaxPrice)
  \/ \E i \in TickIds : ExecReturn(i)
  \/ \E i \in TickIds : ExecThrow(i)
  \/ \E userId \in Users, orderId \in OrderIds : CancelOrder(userId, orderId)
  \/ AdvanceClock

SpecUpdates == Init /\ [][NextUpdates]_vars

\* The engine with a book of several orders; the caller awaits each tick
\* before the next one
NextBook ==
  \/ \E userId \in Users, config \in BookConfigs : BookOrder(userId, config)
  \/ \E userId \in Users, asset \in Assets \cup {NoAsset} :
       CancelAllOrders(userId, asset)
  \/ \E userId \in Users, asset \in Assets :
       ticks = <<>> /\ CheckOrders(userId, asset, MaxPrice)
  \/ \E i \in TickIds : ExecReturn(i)
  \/ \E i \in TickIds : ExecThrow(i)
  \/ AdvanceClock

SpecBook == Init /\ [][NextBook]_vars

\* The same engine with the scheduling the event loop gives: a tick the
\* caller can start is started; when, and whether, executeFn settles is up
\* to the callback
SpecBookFair ==
  /\ SpecBook
  /\ WF_vars(\E userId \in Users, asset \in Assets :
               ticks = <<>> /\ CheckOrders(userId, asset, MaxPrice))

\* The engine with its three ways to create orders; the caller awaits each
\* tick before the next one
NextCreate ==
  \/ \E userId \in Users, config \in BookConfigs : BookOrder(userId, config)
  \/ \E userId \in Users, asset \in Assets :
       CreateOCO(userId, asset, 1, MaxPrice, 1)
  \/ \E userId \in Users, asset \in Assets :
       CreateTrailingStop(userId, asset, 1, 1, NULL)
  \/ \E userId \in Users, asset \in Assets :
       ticks = <<>> /\ CheckOrders(userId, asset, MaxPrice)
  \/ \E i \in TickIds : ExecReturn(i)
  \/ \E i \in TickIds : ExecThrow(i)
  \/ \E userId \in Users, orderId \in OrderIds : CancelOrder(userId, orderId)

SpecCreate == Init /\ [][NextCreate]_vars

\* the pending orders, the ones a cancel can act on
PendingIds == {id \in DOMAIN order : order[id].status = "pending"}

\* The engine of a user whose history log is near its cap; the caller awaits
\* each tick before the next one
NextHistory ==
  \/ LateOrder("alice", PlainConfig("buy", "ETH", MaxPrice, NULL))
  \/ \E orderId \in PendingIds : CancelOrder("alice", orderId)
  \/ ticks = <<>> /\ CheckOrders("alice", "ETH", MaxPrice)
  \/ \E i \in TickIds : ExecReturn(i)
  \/ \E i \in TickIds : ExecThrow(i)

SpecHistory == InitHistory /\ [][NextHistory]_vars

\* The engine with one-cancels-other pairs created from good and from missing
\* arguments; the caller awaits each tick before the next one
NextPairs ==
  \/ \E userId \in Users, limitPrice \in {MaxPrice, Undefined},
        stopPrice \in {1, Undefined} :
       CreateOCO(userId, "ETH", 1, limitPrice, stopPrice)
  \/ \E userId \in Users : ticks = <<>> /\ CheckOrders(userId, "ETH", MaxPrice)
  \/ \E i \in TickIds : ExecReturn(i)
  \/ \E i \in TickIds : ExecThrow(i)
  \/ \E userId \in Users, orderId \in OrderIds : CancelOrder(userId, orderId)
  \/ \E userId \in Users, orderId \in OrderIds, updates \in PlainUpdates :
       UpdateOrder(userId, orderId, updates)

SpecPairs == Init /\ [][NextPairs]_vars

\* =============================================================== claims
Created == DOMAIN order

\* the ids a checkOrders result lists as executed
ExecutedIds(executed) == {executed[k].orderId : k \in 1..Len(executed)}

\* the ids some suspended checkOrders call is awaiting the callback of
InFlight == {ticks[i].cur : i \in 1..Len(ticks)}

\* C1: once an order's status is filled, cancelled, expired or failed, no
\* step of any tick, cancel, cancel-all or update changes it again.
C1_TerminalStatusNeverChanges ==
  [][\A id \in Created :
       order[id].status \in Terminal => order'[id].status = order[id].status]_vars

\* C2: when the execution callback of an order succeeds after the order was
\* cancelled (the cancel returned while the callback was in flight), the fill
\* is aborted: the order stays cancelled, filledAt, filledPrice and
\* filledAmount are not set, and the tick does not report it as executed.
C2_CancelBeatsInFlightFill ==
  [][\A i \in TickIds :
       (ExecReturn(i) /\ order[ticks[i].cur].status = "cancelled") =>
         LET id == ticks[i].cur
         IN /\ order'[id].status = "cancelled"
            /\ order'[id].filledAt = NULL
            /\ order'[id].filledPrice = NULL
            /\ order'[id].filledAmount = 0
            /\ id \notin ExecutedIds(last'.executed)
            /\ \A j \in 1..Len(ticks') : id \notin ExecutedIds(ticks'[j].executed)]_vars

\* C3: when a tick returns, the linked sibling of every order the tick
\* filled is cancelled.
C3_SiblingCancelledWhenTickReturns ==
  (last.op = "checkOrders" /\ last.returned) =>
    \A id \in ExecutedIds(last.executed) :
      (order[id].status = "filled" /\ order[id].linkedOrderId # NULL) =>
        order[order[id].linkedOrderId].status = "cancelled"

\* C4: of the two linked orders of an OCO pair at most one is ever filled.
C4_AtMostOneLegFilled ==
  \A id \in Created :
    order[id].linkedOrderId # NULL =>
      ~(order[id].status = "filled"
          /\ order[order[id].linkedOrderId].status = "filled")

\* the limit condition of the claim: buy at or below, sell at or above
LimitCondition(o, p) ==
  \/ o.type = "buy" /\ p <= o.limitPrice
  \/ o.type = "sell" /\ p >= o.limitPrice

IsPlain(o) == o.stopLoss = NULL /\ o.takeProfit = NULL /\ ~o.isTrailing

PastExpiry(o) == o.expiresAt # NULL /\ now > o.expiresAt

\* the user's pending, unexpired orders on the asset that are still in the Map
Live(userId, asset) ==
  {id \in Created :
     /\ order[id].userId = userId /\ order[id].asset = asset
     /\ order[id].status = "pending" /\ ~PastExpiry(order[id])}

\* C5: a pending, unexpired plain limit order reached by a tick on its asset
\* at price p has its callback invoked iff the limit condition holds at p
\* (buy: p <= limitPrice, sell: p >= limitPrice); when it does not fire it is
\* left exactly as it was; when the callback of a firing order returns, the
\* order is filled with filledPrice = p and filledAmount = amount.
C5_LimitOrderFiresIffLimitReached ==
  [][/\ \A userId \in Users, asset \in Assets, p \in Prices :
          CheckOrders(userId, asset, p) =>
            \A id \in Live(userId, asset) :
              (IsPlain(order[id]) /\ \A k \in Live(userId, asset) : k >= id) =>
                /\ (last'.invoked = id) <=> LimitCondition(order[id], p)
                /\ ~LimitCondition(order[id], p) => order'[id] = order[id]
     /\ \A id \in last'.evaluated :
          IsPlain(order[id]) =>
            /\ (last'.invoked = id) <=> LimitCondition(order[id], last'.price)
            /\ last'.invoked # id => order'[id] = order[id]
     /\ \A i \in TickIds :
          (ExecReturn(i) /\ IsPlain(order[ticks[i].cur])) =>
            LET id == ticks[i].cur
            IN /\ order'[id].status = "filled"
               /\ order'[id].filledPrice = ticks[i].price
               /\ order'[id].filledAmount = order[id].amount
               /\ id \in ExecutedIds(last'.executed)
                    \/ \E j \in 1..Len(ticks') : id \in ExecutedIds(ticks'[j].executed)]_vars

\* a tick has just filled a buy order at a price at or below its limit
C5_Witness ==
  \E id \in Created :
    /\ last.op = "checkOrders" /\ last.settled = id
    /\ IsPlain(order[id]) /\ order[id].type = "buy"
    /\ order[id].status = "filled"
    /\ order[id].filledPrice = last.price
    /\ order[id].filledPrice <= order[id].limitPrice

\* C6: a tick that reaches a pending order whose expiresAt has passed sets it
\* to expired whatever the price, and the callback is never invoked for an
\* order that is past its expiry or expired, on that tick or any later one.
C6_ExpiryPreemptsExecution ==
  [][/\ \A userId \in Users, asset \in Assets, p \in Prices :
          CheckOrders(userId, asset, p) =>
            \A id \in Created :
              ( /\ order[id].userId = userId /\ order[id].asset = asset
                /\ order[id].status = "pending" /\ PastExpiry(order[id])
                /\ \A k \in Live(userId, asset) : k > id ) =>
                  /\ order'[id].status = "expired"
                  /\ id \in last'.expired
     /\ \A id \in last'.expired :
          /\ order[id].status = "pending" /\ PastExpiry(order[id])
          /\ order'[id].status = "expired"
     /\ \A id \in Created :
          (order[id].status = "expired"
             \/ (order[id].status = "pending" /\ PastExpiry(order[id]))) =>
            /\ last'.invoked # id
            /\ id \in InFlight' => id \in InFlight]_vars

\* a tick at a price that meets the limit has just expired the order instead
C6_Witness ==
  \E id \in Created :
    /\ last.op = "checkOrders" /\ id \in last.expired
    /\ order[id].status = "expired"
    /\ LimitCondition(order[id], last.price)
    /\ id \notin InFlight

\* C7: when the execution callback throws, the order becomes failed with the
\* error message recorded; from then on it is never pending again and no tick
\* invokes the callback for it again.
C7_FailedOrderIsNotRetried ==
  [][/\ \A i \in TickIds :
          ExecThrow(i) =>
            /\ order'[ticks[i].cur].status = "failed"
            /\ order'[ticks[i].cur].failReason = ErrorMessage
     /\ \A id \in Created :
          order[id].failReason # "" =>
            /\ order'[id].failReason = order[id].failReason
            /\ order'[id].status # "pending"
            /\ last'.invoked # id
            /\ id \in InFlight' => id \in InFlight]_vars

\* the callback of the order has just thrown and the order is failed
C7_Witness ==
  \E id \in Created :
    /\ last.op = "checkOrders" /\ last.settled = id
    /\ order[id].status = "failed"
    /\ order[id].failReason = ErrorMessage

\* C8: cancelOrder(userId, orderId) returns true iff the order exists, is the
\* user's and is pending, and then the order is cancelled; otherwise it
\* returns false and changes no order, no Map and no history.
C8_CancelOnlyOwnPendingOrder ==
  [][\A userId \in Users, orderId \in OrderIds :
       CancelOrder(userId, orderId) =>
         LET mine == /\ orderId \in Created
                     /\ order[orderId].userId = userId
                     /\ order[orderId].status = "pending"
         IN /\ last'.ok <=> mine
            /\ mine => /\ order'[orderId].status = "cancelled"
                       /\ \A id \in Created \ {orderId} : order'[id] = order[id]
            /\ ~mine => /\ order' = order
                        /\ orders' = orders
                        /\ orderHistory' = orderHistory]_vars

\* a cancel has just been refused while every order is expired or failed
C8_Witness ==
  /\ last.op = "cancelOrder" /\ ~last.ok
  /\ Created # {}
  /\ \A id \in Created : order[id].status \in {"expired", "failed"}

\* the trigger of the claim for a trailing sell stop, from the highest price
\* seen including p; the percentage is compared without division
TrailingTrigger(o, p) ==
  LET highest == IF o.highestPrice = NULL \/ p > o.highestPrice
                 THEN p ELSE o.highestPrice
  IN IF o.trailAmount # NULL
     THEN p <= highest - o.trailAmount
     ELSE p * 100 <= highest * (100 - o.trailPercent)

HasTrail(o) == o.isTrailing /\ (o.trailAmount # NULL \/ o.trailPercent # NULL)

\* C9: a pending trailing sell stop reached by a tick at price p has its
\* callback invoked iff p is at or below the trigger derived from the highest
\* price seen so far, p included; so never on its first tick.
C9_TrailingStopFiresAtTrigger ==
  [][\A id \in last'.evaluated :
       HasTrail(order[id]) =>
         ((last'.invoked = id) <=> TrailingTrigger(order[id], last'.price))]_vars

\* C10: after a tick at price p has reached a pending trailing order, the
\* order's highestPrice is the larger of p and its previous highestPrice.
C10_HighestPriceIsRunningMaximum ==
  [][\A id \in last'.evaluated :
       order[id].isTrailing =>
         order'[id].highestPrice =
           IF order[id].highestPrice = NULL \/ last'.price > order[id].highestPrice
           THEN last'.price ELSE order[id].highestPrice]_vars

\* C11: a pending, unexpired sell order with a stop loss has its callback
\* invoked by every tick at or below the stop loss, and one with a take
\* profit by every tick at or above it, whatever its limit price and whether
\* or not currentPrice was given at creation; a buy order is invoked only
\* when its limit condition holds.
C11_StopLossAndTakeProfitFire ==
  [][\A id \in last'.evaluated :
       LET o == order[id]
           p == last'.price
       IN /\ (o.type = "sell" /\ o.stopLoss # NULL /\ p <= o.stopLoss) =>
               last'.invoked = id
          /\ (o.type = "sell" /\ o.takeProfit # NULL /\ p >= o.takeProfit) =>
               last'.invoked = id
          /\ (o.type = "buy" /\ ~LimitCondition(o, p)) => last'.invoked # id]_vars

\* C12: for an OCO pair whose two legs are pending and whose stop price lies
\* below the buy limit, a tick below the stop price invokes the callback on
\* the stop-sell leg, not on the buy leg.
C12_TickBelowStopFiresStopLeg ==
  [][\A userId \in Users, asset \in Assets, price \in Prices :
       CheckOrders(userId, asset, price) =>
         \A id \in Created :
           LET buy  == order[id]
               stop == order[buy.linkedOrderId]
           IN (/\ buy.linkedOrderId # NULL
               /\ buy.type = "buy"
               /\ buy.userId = userId
               /\ buy.asset = asset
               /\ buy.status = "pending"
               /\ stop.status = "pending"
               /\ stop.limitPrice < buy.limitPrice
               /\ price < stop.limitPrice) =>
                last'.invoked = buy.linkedOrderId]_vars

\* the history log of a user in a history Map; empty when the user has none
historyOf(h, userId) == IF userId \in DOMAIN h THEN h[userId] ELSE <<>>

\* C13: every step in which an order's status becomes filled, cancelled,
\* expired or failed appends an entry with the order's id and its new status
\* to the history log of the order's owner.
C13_TerminalTransitionIsArchived ==
  [][\A id \in Created :
       (order'[id].status # order[id].status /\ order'[id].status \in Terminal) =>
         LET old == historyOf(orderHistory, order[id].userId)
             new == historyOf(orderHistory', order[id].userId)
         IN \E i \in (Len(old) + 1)..Len(new) :
              /\ new[i].id = id
              /\ new[i].status = order'[id].status]_vars

\* a configuration the claim calls invalid: no positive amount, no positive
\* limit price, or a side that is neither buy nor sell
InvalidConfig(config) ==
  \/ config.amount = Undefined \/ config.amount <= 0
  \/ config.limitPrice = Undefined \/ config.limitPrice <= 0
  \/ config.type \notin {"buy", "sell"}

\* C14: createOrder with an invalid configuration fails and creates nothing:
\* no order is added, no user's Map changes.
C14_InvalidConfigCreatesNothing ==
  [][\A userId \in Users, config \in OrderConfigs :
       (CreateOrder(userId, config) /\ InvalidConfig(config)) =>
         /\ ~last'.ok
         /\ order' = order
         /\ orders' = orders]_vars

\* C15: updateOrder(userId, orderId, updates) succeeds iff the order exists,
\* is the user's and is pending; a refused update changes no field of any
\* order; a successful one changes only the updated order and never its id,
\* owner, asset, side or status.
C15_UpdateOnlyOwnPendingOrder ==
  [][\A userId \in Users, orderId \in OrderIds, updates \in AllUpdates :
       UpdateOrder(userId, orderId, updates) =>
         LET mine == /\ orderId \in Created
                     /\ order[orderId].userId = userId
                     /\ order[orderId].status = "pending"
         IN /\ last'.ok <=> mine
            /\ ~mine => /\ order' = order
                        /\ orders' = orders
                        /\ orderHistory' = orderHistory
            /\ mine =>
                 /\ order'[orderId].id = order[orderId].id
                 /\ order'[orderId].userId = order[orderId].userId
                 /\ order'[orderId].asset = order[orderId].asset
                 /\ order'[orderId].type = order[orderId].type
                 /\ order'[orderId].status = "pending"
                 /\ order'[orderId].limitPrice =
                      (IF updates.limitPrice \in Prices
                       THEN updates.limitPrice ELSE order[orderId].limitPrice)
                 /\ order'[orderId].amount =
                      (IF updates.amount = Undefined
                       THEN order[orderId].amount ELSE updates.amount)
                 /\ \A id \in Created \ {orderId} : order'[id] = order[id]]_vars

\* an update has just been refused while the only order, still in its
\* owner's Map, is expired or failed
C15_Witness ==
  /\ last.op = "updateOrder"
  /\ ~last.ok
  /\ Created # {}
  /\ \A id \in Created : /\ order[id].status \in {"expired", "failed"}
                         /\ hasKey(Store, order[id].userId, id)

\* the user's pending orders on the asset (on any asset without a filter)
Matching(userId, asset) ==
  {id \in Created : /\ order[id].userId = userId
                    /\ order[id].status = "pending"
                    /\ (asset = NoAsset \/ order[id].asset = asset)}

\* C16: cancelAllOrders(userId, asset) returns the number of the user's
\* pending orders matching the asset filter; each of them is cancelled and
\* gets its own history entry, none of them stays pending, and every other
\* order and every other user's Map and history are unchanged.
C16_CancelAllCancelsExactlyTheMatching ==
  [][\A userId \in Users, asset \in Assets \cup {NoAsset} :
       CancelAllOrders(userId, asset) =>
         LET matching == Matching(userId, asset)
             old == historyOf(orderHistory, userId)
             new == historyOf(orderHistory', userId)
         IN /\ last'.count = Cardinality(matching)
            /\ Len(new) = Len(old) + Cardinality(matching)
            /\ SubSeq(new, 1, Len(old)) = old
            /\ \A id \in matching :
                 /\ order'[id].status = "cancelled"
                 /\ ~hasKey(Store', userId, id)
                 /\ \E i \in (Len(old) + 1)..Len(new) :
                      new[i].id = id /\ new[i].status = "cancelled"
            /\ \A id \in Created \ matching :
                 /\ order'[id] = order[id]
                 /\ \A v \in Users : hasKey(Store', v, id) <=> hasKey(Store, v, id)
            /\ \A v \in Users \ {userId} :
                 historyOf(orderHistory', v) = historyOf(orderHistory, v)]_vars

\* a filtered cancelAllOrders has just cancelled one order of a user and left
\* that user's pending order on the other asset alone
C16_Witness ==
  /\ last.op = "cancelAllOrders"
  /\ last.count = 1
  /\ \E id, other \in Created :
       /\ order[id].status = "cancelled"
       /\ order[other].status = "pending"
       /\ order[other].userId = order[id].userId
       /\ order[other].asset # order[id].asset

AssetFilters == Assets \cup {NoAsset}

\* the list holds exactly the user's pending orders on the asset, each once
ListsExactlyPending(list, userId, asset) ==
  /\ {list[i] : i \in 1..Len(list)} = Matching(userId, asset)
  /\ Len(list) = Cardinality(Matching(userId, asset))

C18_NoAccessToAnotherUsersOrder ==
  [][\A id \in Created, v \in Users :
       order[id].userId # v =>
         /\ getOrder(Store, v, id) = NULL
         /\ id \in DOMAIN order' => getOrder(Store', v, id) = NULL
         /\ CancelOrder(v, id) => order'[id] = order[id]
         /\ \A updates \in AllUpdates :
              UpdateOrder(v, id, updates) =>
                /\ ~last'.ok
                /\ order'[id] = order[id]]_vars

\* a cancel or an update has just been refused although the order asked for
\* or the only other one is pending in its owner's Map
C18_Witness ==
  /\ last.op \in {"cancelOrder", "updateOrder"}
  /\ ~last.ok
  /\ \E id \in Created :
       /\ order[id].status = "pending"
       /\ getOrder(Store, order[id].userId, id) = id
       /\ \E v \in Users \ {order[id].userId} : getOrder(Store, v, id) = NULL

Creations == {"createOrder", "createOCO", "createTrailingStop"}

\* the ids any user's history log mentions
ArchivedIds ==
  UNION {{orderHistory[u][i].id : i \in 1..Len(orderHistory[u])} :
           u \in DOMAIN orderHistory}

\* C19: a creation adds one order (two for an OCO pair), each pending, under
\* an id that no order ever created has, be it pending, filled, cancelled,
\* failed or archived, and it leaves every existing order as it is; no other
\* step adds an order, and no step changes the id or the owner of an order.
C19_FreshIdAndPending ==
  [][LET fresh == DOMAIN order' \ Created
     IN /\ \A id \in Created :
             /\ id \in DOMAIN order'
             /\ order'[id].id = id
             /\ order'[id].userId = order[id].userId
        /\ last'.op \in Creations =>
             /\ Cardinality(fresh) = (IF last'.op = "createOCO" THEN 2 ELSE 1)
             /\ \A id \in Created : order'[id] = order[id]
        /\ last'.op \notin Creations => fresh = {}
        /\ \A id \in fresh :
             /\ order'[id].id = id
             /\ order'[id].status = "pending"
             /\ hasKey(Store', order'[id].userId, id)
             /\ id \notin ArchivedIds
             /\ \A u \in Users : ~hasKey(Store, u, id)]_vars

\* an order has just been created while an earlier order is filled or
\* cancelled and archived
C19_Witness ==
  /\ last.op \in Creations
  /\ \E id \in Created :
       /\ order[id].status \in {"filled", "cancelled"}
       /\ id \in ArchivedIds
       /\ \E new \in Created : new > id /\ order[new].status = "pending"

\* the user's orders that ended in the status
Ended(userId, status) ==
  {id \in Created : order[id].userId = userId /\ order[id].status = status}

\* C20: getStatistics(userId) reports for filled, cancelled, expired and
\* failed the number of the user's orders that ended in that status; total is
\* the sum of the four, and fillRate is filled / total, "N/A" when total is 0.
C20_StatisticsCountTerminalOrders ==
  \A userId \in Users :
    LET stats == getStatistics(Store, userId)
    IN /\ stats.filled = Cardinality(Ended(userId, "filled"))
       /\ stats.cancelled = Cardinality(Ended(userId, "cancelled"))
       /\ stats.expired = Cardinality(Ended(userId, "expired"))
       /\ stats.failed = Cardinality(Ended(userId, "failed"))
       /\ stats.total = stats.filled + stats.cancelled + stats.expired + stats.failed
       /\ stats.total = 0 <=> stats.fillRate.text = "N/A"
       /\ stats.total > 0 =>
            stats.fillRate = fillRate(stats.filled, stats.total)

\* C21: no user's history log ever holds more than HistoryCap entries; a
\* step that archives n orders of a user leaves the last HistoryCap entries of
\* the old log followed by the n new entries: the oldest entries are dropped
\* and the order of the others is kept.
C21_HistoryKeepsTheLatestEntries ==
  [][\A userId \in Users :
       LET old == historyOf(orderHistory, userId)
           new == historyOf(orderHistory', userId)
       IN /\ Len(old) <= HistoryCap
          /\ Len(new) <= HistoryCap
          /\ \/ new = old
             \/ \E n \in 1..MaxFresh :
                  LET dropped == Len(old) + n - Len(new)
                  IN /\ Len(new) = IF Len(old) + n > HistoryCap
                                   THEN HistoryCap ELSE Len(old) + n
                     /\ \A i \in 1..(Len(new) - n) : new[i] = old[i + dropped]
                     /\ \A i \in (Len(new) - n + 1)..Len(new) :
                          /\ new[i].id \in Created
                          /\ new[i] = order'[new[i].id]]_vars

\* the log is full and its oldest entry has been dropped
C21_Witness ==
  \E userId \in DOMAIN orderHistory :
    /\ Len(orderHistory[userId]) = HistoryCap
    /\ orderHistory[userId][1].id > 1
    /\ orderHistory[userId][HistoryCap].id > HistoryCap

\* C22: the result a tick returns lists every order whose callback the tick
\* invoked: when the call returns in the step in which a callback returned or
\* threw, the order of that callback is among the executed entries.
C22_ResultListsEveryFiredOrder ==
  [][\A i \in TickIds :
       ((ExecReturn(i) \/ ExecThrow(i)) /\ last'.returned) =>
         ticks[i].cur \in ExecutedIds(last'.executed)]_vars

\* C23: in every state the links of an OCO pair point at each other; a
\* createOCO call adds both orders of a pair, linked both ways, or no order at
\* all; and no step changes the linkedOrderId of an existing order.
C23_OcoLinksSymmetricAndAtomic ==
  [][LET fresh == DOMAIN order' \ Created
     IN /\ \A id \in Created :
             /\ order[id].linkedOrderId # NULL =>
                  /\ order[id].linkedOrderId \in Created
                  /\ order[order[id].linkedOrderId].linkedOrderId = id
             /\ order'[id].linkedOrderId = order[id].linkedOrderId
        /\ last'.op = "createOCO" =>
             \/ fresh = {}
             \/ /\ Cardinality(fresh) = 2
                /\ \A id \in fresh : order'[id].linkedOrderId \in fresh \ {id}]_vars

\* a tick is suspended in the callback of order a while order b, later in
\* the same Map, is pending on the tick's asset and fires at the tick's price
FiresBehind(a, b) ==
  \E i \in 1..Len(ticks) :
    /\ ticks[i].cur = a
    /\ b \in Created
    /\ b > a
    /\ order[b].userId = ticks[i].userId
    /\ order[b].asset = ticks[i].asset
    /\ order[b].status = "pending"
    /\ ~isExpired(order[b], now)
    /\ triggerReason(order[b], ticks[i].price) # ""

\* C24: while a tick waits for the callback of one order, every other pending
\* order that fires on that tick eventually has its own callback invoked,
\* unless the wait ends or the order stops being pending first.
C24_HangingExecutionDoesNotStall ==
  \A a, b \in 1..MaxBook :
    FiresBehind(a, b) ~> (b \in InFlight \/ ~FiresBehind(a, b))

\* C25: an order has a fill recorded iff it is filled: a filled order has
\* filledAmount = amount and the price of a tick as filledPrice; every other
\* order has filledPrice null and filledAmount zero.
C25_FillRecordedIffFilled ==
  \A id \in Created :
    IF order[id].status = "filled"
    THEN /\ order[id].filledAmount = order[id].amount
         /\ order[id].filledPrice \in Prices
    ELSE /\ order[id].filledAmount = 0
         /\ order[id].filledPrice = NULL

\* C26: when a callback of a tick settles, the outcome is applied to its
\* order before the tick goes on; the next callback the tick invokes is for an
\* order created later, and never for the linked sibling of the order the
\* tick has just filled.
C26_OneAtATimeAndCascadeFirst ==
  [][\A i \in TickIds :
       (ExecReturn(i) \/ ExecThrow(i)) =>
         LET cur == ticks[i].cur
         IN /\ order'[cur].status \in {"filled", "failed"}
            /\ last'.invoked # NULL => last'.invoked > cur
            /\ (ExecReturn(i) /\ order[cur].linkedOrderId # NULL) =>
                 last'.invoked # order[cur].linkedOrderId]_vars

\* C27: no step invokes the callback for an order whose callback is already
\* in flight in a suspended tick, or whose callback has already returned or
\* thrown.
C27_CallbackInvokedAtMostOnce ==
  [][last'.invoked # NULL =>
       /\ last'.invoked \notin InFlight
       /\ order[last'.invoked].filledAt = NULL
       /\ order[last'.invoked].failReason = ""]_vars

\* C28: no user's history log holds two entries with the same order id.
C28_OneHistoryEntryPerOrder ==
  \A userId \in DOMAIN orderHistory :
    \A i, j \in 1..Len(orderHistory[userId]) :
      i < j => orderHistory[userId][i].id # orderHistory[userId][j].id

\* C29: when the callback of an order returns, the filledAmount recorded is
\* the amount the order had when the callback was invoked, whatever
\* updateOrder calls were made in between.
C29_FillMatchesExecutedAmount ==
  [][\A i \in TickIds :
       ExecReturn(i) =>
         order'[ticks[i].cur].filledAmount = ticks[i].amount]_vars

\* what a step of a tick of (userId, asset) may touch: the user's orders on
\* the asset that are pending, and the order whose callback the tick awaited
InScope(id, userId, asset, cur) ==
  /\ order[id].userId = userId
  /\ order[id].asset = asset
  /\ (order[id].status = "pending" \/ id = cur)

\* a step of a tick of (userId, asset) leaves every order out of its scope,
\* every other user's Map and history as they are, and invokes the callback
\* only for a pending order of the user on the asset
TickFrame(userId, asset, cur) ==
  /\ \A id \in Created :
       ~InScope(id, userId, asset, cur) => order'[id] = order[id]
  /\ \A v \in Users \ {userId} :
       /\ historyOf(orderHistory', v) = historyOf(orderHistory, v)
       /\ \A id \in Created : hasKey(Store', v, id) <=> hasKey(Store, v, id)
  /\ last'.invoked # NULL => InScope(last'.invoked, userId, asset, NULL)

\* C30: no step of a checkOrders(userId, asset, price) tick changes an order
\* of another user, an order on another asset, or an order that is not
\* pending (no order ever becomes pending again, so this covers every order
\* that was not pending when the tick began), or another user's Map or
\* history, and no step invokes the callback for such an order.
C30_TickTouchesOnlyItsOwnPendingOrders ==
  [][/\ \A id \in Created :
          order[id].status # "pending" => order'[id].status # "pending"
     /\ \A userId \in Users, asset \in Assets :
          CheckOrders(userId, asset, MaxPrice) => TickFrame(userId, asset, NULL)
     /\ \A i \in TickIds :
          (ExecReturn(i) \/ ExecThrow(i)) =>
            TickFrame(ticks[i].userId, ticks[i].asset, ticks[i].cur)]_vars

\* a tick has just filled an order while an order of the other user and an
\* order on the other asset are pending
C30_Witness ==
  /\ last.op = "checkOrders"
  /\ last.settled # NULL
  /\ order[last.settled].status = "filled"
  /\ \E id \in Created :
       /\ order[id].status = "pending"
       /\ \/ order[id].userId # order[last.settled].userId
          \/ order[id].asset # order[last.settled].asset

====
